---- MODULE Spec2Model ----
(***************************************************************************)
(* Model of spritegen (src/tooling/spritegen/main.py): the sprite asset    *)
(* pipeline.  The state is the sprites directory on disk (files with their *)
(* contents, directories), a logical clock standing for datetime.now(),    *)
(* and a record of the last command run with its arguments and result.     *)
(* Paths are sequences of segments relative to SPRITES_ROOT; strings are   *)
(* TLA+ strings and string formatting is string concatenation.             *)
(***************************************************************************)
EXTENDS Integers, Sequences, FiniteSets, TLC

\* files: path -> content.  dirs: the directories outside the fixed skeleton
\* of ensure_directories; skeleton: whether that skeleton has been created.
VARIABLES files, dirs, skeleton, now, last

vars == <<files, dirs, skeleton, now, last>>

(***************************************************************************)
(* Bounds of the model.                                                    *)
(***************************************************************************)
\* number of commands in a run (each command reads the clock once)
MaxCmds == 3
\* longest response stream of the provider, in chunks
MaxChunks == 2

(***************************************************************************)
(* Python values.                                                          *)
(***************************************************************************)
\* Python's None (for string-valued optionals)
None == "<None>"

\* An absent optional integer (args.size is None) is the empty set, a given
\* one the singleton.
NoInt == {}

\* Python truthiness of an optional string
Truthy(x) == x # None /\ x # ""

\* Python's `a or b` on optional strings
Or(a, b) == IF Truthy(a) THEN a ELSE b

\* dict.get(key, default)
Get(d, key, default) == IF key \in DOMAIN d THEN d[key] ELSE default

\* dict[key] = value
Put(d, key, value) == [k \in DOMAIN d \cup {key} |-> IF k = key THEN value ELSE d[k]]

(***************************************************************************)
(* The inputs the commands are run with.                                   *)
(***************************************************************************)
\* str(uuid.uuid4())[:8]: nothing keeps a draw from repeating an earlier one
AssetIds == {"u1"}

\* --category, --subcategory and --name of approve (None: not given)
ApproveCategories == {None, "enemy"}

ApproveSubcategories == {None, "minor"}

ApproveNames == {None, "slime"}

\* --reason of reject
Reasons == {None, "bad proportions"}

\* The generate requests of the runs of whole commands: staged or direct,
\* with and without a subcategory, with a name and with an empty --name.
LifecycleArgs ==
    {[category |-> "player", subcategory |-> sc, name |-> n,
      prompt |-> "green slime", god |-> "zeus", frames |-> 4, size |-> {32},
      output |-> o, auto_apply |-> FALSE] :
        sc \in {None, "minor"}, n \in {"idle", ""}, o \in {"staging", "direct"}}

\* The generate requests run against every response stream.
StreamedArgs ==
    {[category |-> c, subcategory |-> sc, name |-> "idle",
      prompt |-> r.prompt, god |-> r.god, frames |-> r.frames, size |-> r.size,
      output |-> o.output, auto_apply |-> o.auto_apply] :
        c \in {"player", "enemy"}, sc \in {None, "boss"},
        r \in {[prompt |-> "standing hero", god |-> None, frames |-> 1, size |-> NoInt],
               [prompt |-> "green slime", god |-> "zeus", frames |-> 4, size |-> {32}]},
        o \in {[output |-> "staging", auto_apply |-> FALSE],
               [output |-> "direct", auto_apply |-> FALSE],
               [output |-> "staging", auto_apply |-> TRUE]}}

\* every asset name of the model
NameUniverse == {"idle", "slime", ""}

(***************************************************************************)
(* Configuration.                                                          *)
(***************************************************************************)
DEFAULT_STYLE_PROMPT == "Retro video game pixel art sprite (NOT digital illustration), black 1px outlines, light source from upper-left (highlights on upper-left edges, shadows on lower-right), medium saturation colors (vibrant but earthy, not neon), crisp pixelated edges, no anti-aliasing, no smooth gradients"

DEFAULT_AESTHETIC == "Mythic Greek world with weathered, lived-in feel, mix of human, divine, and monstrous"

SIZE_DEFAULTS ==
    [k \in {"player", "enemy.minor", "enemy.major", "enemy.boss", "weapon",
            "effect", "terrain.platform", "terrain.wall", "terrain.background",
            "terrain.tileset", "ui.icon", "ui.bar", "ui"} |->
        CASE k = "player" -> 64
          [] k = "enemy.minor" -> 64
          [] k = "enemy.major" -> 128
          [] k = "enemy.boss" -> 256
          [] k = "weapon" -> 64
          [] k = "effect" -> 64
          [] k = "terrain.platform" -> 64
          [] k = "terrain.wall" -> 64
          [] k = "terrain.background" -> 512
          [] k = "terrain.tileset" -> 256
          [] k = "ui.icon" -> 32
          [] k = "ui.bar" -> 128
          [] k = "ui" -> 64]

GOD_PALETTES ==
    [g \in {"zeus", "poseidon", "ares", "demeter"} |->
        CASE g = "zeus" ->
               [primary |-> "#FFD700", secondary |-> "#00BFFF", accent |-> "#FFFFFF",
                dark |-> "#1a1a2e",
                description |-> "gold, electric blue, white, dark storm colors"]
          [] g = "poseidon" ->
               [primary |-> "#1a3a5c", secondary |-> "#000000", accent |-> "#FFFFFF",
                dark |-> "#0a1520",
                description |-> "dark blue, black, white foam colors"]
          [] g = "ares" ->
               [primary |-> "#8B4513", secondary |-> "#DC143C", accent |-> "#708090",
                dark |-> "#2a1a0a",
                description |-> "brown, crimson, steel gray colors"]
          [] g = "demeter" ->
               [primary |-> "#90EE90", secondary |-> "#87CEEB", accent |-> "#F0E68C",
                dark |-> "#1a2a1a",
                description |-> "gentle green, frost blue, gentle yellow colors"]]

(***************************************************************************)
(* The disk: files (path -> content) and directories under SPRITES_ROOT.   *)
(***************************************************************************)
STYLE_GUIDE_PATH == <<"style_guide.json">>

MANIFEST_PATH == <<"manifest.json">>

\* SPRITES_ROOT relative to the project root (SPRITES_ROOT.parent.parent)
SpritesRootRel == <<"assets", "sprites">>

\* path.relative_to(SPRITES_ROOT.parent.parent), for a path under SPRITES_ROOT
RelativeToProject(p) == SpritesRootRel \o p

Prefixes(p) == {SubSeq(p, 1, k) : k \in 1..Len(p)}

IsPrefix(p, q) == Len(p) <= Len(q) /\ SubSeq(q, 1, Len(p)) = p

\* Path / segment: pathlib drops an empty segment
Join(p, seg) == IF seg = "" THEN p ELSE Append(p, seg)

UsedRoot == <<"used">>

StagingRoot == <<"staging">>

AlternativesRoot == <<"alternatives">>

SkeletonDirs ==
    {<<"staging">>,
     <<"used", "player", "base">>, <<"used", "player", "hair">>,
     <<"used", "player", "face">>, <<"used", "player", "clothing">>,
     <<"used", "enemies", "minor">>, <<"used", "enemies", "major">>,
     <<"used", "enemies", "boss">>,
     <<"used", "terrain", "platforms">>, <<"used", "terrain", "walls">>,
     <<"used", "terrain", "backgrounds">>, <<"used", "terrain", "tilesets">>,
     <<"used", "weapons", "sword">>, <<"used", "weapons", "spear">>,
     <<"used", "effects", "hit">>, <<"used", "effects", "dash">>,
     <<"used", "ui", "health">>, <<"used", "ui", "icons">>,
     <<"alternatives">>}

\* the skeleton with the parents mkdir(parents=True) creates
SkeletonTree == UNION {Prefixes(p) : p \in SkeletonDirs}

\* Path.is_dir()
IsDir(D, p) == p \in D.dirs \/ (D.skeleton /\ p \in SkeletonTree)

\* Path.exists()
Exists(D, p) == p \in DOMAIN D.files \/ IsDir(D, p)

\* Path.mkdir(parents=True, exist_ok=True)
Mkdir(D, p) == [D EXCEPT !.dirs = D.dirs \cup {q \in Prefixes(p) : ~IsDir(D, q)}]

\* open(p, "w") ... write
WriteFile(D, p, content) == [D EXCEPT !.files = Put(D.files, p, content)]

\* shutil.rmtree(p)
Rmtree(D, p) ==
    [files |-> [q \in {r \in DOMAIN D.files : ~IsPrefix(p, r)} |-> D.files[q]],
     dirs |-> {r \in D.dirs : ~IsPrefix(p, r)},
     skeleton |-> D.skeleton]

\* os.rename(src, dst) of a directory: everything below src is below dst
Rebase(src, dst, q) == dst \o SubSeq(q, Len(src) + 1, Len(q))

Rename(D, src, dst) ==
    LET moved == {r \in DOMAIN D.files : IsPrefix(src, r)}
        kept == DOMAIN D.files \ moved
        target == {Rebase(src, dst, r) : r \in moved}
    IN [files |-> [q \in kept \cup target |->
                      IF q \in target
                      THEN D.files[CHOOSE r \in moved : Rebase(src, dst, r) = q]
                      ELSE D.files[q]],
        dirs |-> {r \in D.dirs : ~IsPrefix(src, r)}
                 \cup {Rebase(src, dst, r) : r \in {x \in D.dirs : IsPrefix(src, x)}},
        skeleton |-> D.skeleton]

\* shutil.move(src, dst) of a directory on one file system: into dst when dst
\* is an existing directory (an error when that place is taken), else a rename
MoveTarget(D, src, dst) ==
    IF IsDir(D, dst) THEN Append(dst, src[Len(src)]) ELSE dst

MoveRaises(D, src, dst) ==
    IsDir(D, dst) /\ Exists(D, MoveTarget(D, src, dst))

Move(D, src, dst) == Rename(D, src, MoveTarget(D, src, dst))

\* The staging and used entries the program makes never lie in the skeleton,
\* so the directories outside it stay as they are.
ensure_directories(D) ==
    [D EXCEPT !.skeleton = TRUE, !.dirs = D.dirs \ SkeletonTree]

load_style_guide(D) ==
    IF Exists(D, STYLE_GUIDE_PATH)
    THEN D.files[STYLE_GUIDE_PATH]
    ELSE [base_style |-> DEFAULT_STYLE_PROMPT,
          aesthetic |-> DEFAULT_AESTHETIC,
          palettes |-> GOD_PALETTES]

save_style_guide(D, guide) == WriteFile(D, STYLE_GUIDE_PATH, guide)

EmptyAssets == [k \in {} |-> 0]

\* The manifest file holds JSON text: a number as its decimal numeral, a
\* string as itself, an object as its members by name.  (The metadata
\* records and the style guide are kept as the documents json.load gives.)
JsonNumber(n) == [number |-> ToString(n)]

JsonString(s) == [string |-> s]

\* the integers the manifests of the model carry: versions, frame counts,
\* sizes
JsonNumbers == 0..8 \cup {32} \cup {SIZE_DEFAULTS[k] : k \in DOMAIN SIZE_DEFAULTS}

JsonNumerals == [n \in JsonNumbers |-> ToString(n)]

\* json.load of a numeral
JsonParseNumber(text) == CHOOSE n \in JsonNumbers : JsonNumerals[n] = text

\* json.dump(manifest, f, indent=2)
JsonDumpManifest(manifest) ==
    [version |-> JsonNumber(manifest.version),
     assets |-> [k \in DOMAIN manifest.assets |->
                   [path |-> JsonString(manifest.assets[k].path),
                    frames |-> JsonNumber(manifest.assets[k].frames),
                    size |-> JsonNumber(manifest.assets[k].size)]]]

\* json.load(f) of a manifest file
JsonLoadManifest(text) ==
    [version |-> JsonParseNumber(text.version.number),
     assets |-> [k \in DOMAIN text.assets |->
                   [path |-> text.assets[k].path.string,
                    frames |-> JsonParseNumber(text.assets[k].frames.number),
                    size |-> JsonParseNumber(text.assets[k].size.number)]]]

\* a wrong load: the manifest file is never read
load_manifest_IgnoresFile(D) == [version |-> 1, assets |-> EmptyAssets]

load_manifest(D) ==
    IF Exists(D, MANIFEST_PATH)
    THEN JsonLoadManifest(D.files[MANIFEST_PATH])
    ELSE [version |-> 1, assets |-> EmptyAssets]

\* a different save: the entries of the file on disk are merged in
save_manifest_Merge(D, manifest) ==
    LET disk_assets == IF Exists(D, MANIFEST_PATH)
                       THEN JsonLoadManifest(D.files[MANIFEST_PATH]).assets
                       ELSE EmptyAssets
        merged == [k \in DOMAIN disk_assets \cup DOMAIN manifest.assets |->
                     IF k \in DOMAIN manifest.assets THEN manifest.assets[k]
                     ELSE disk_assets[k]]
    IN WriteFile(D, MANIFEST_PATH,
                 JsonDumpManifest([manifest EXCEPT !.assets = merged]))

save_manifest(D, manifest) == WriteFile(D, MANIFEST_PATH, JsonDumpManifest(manifest))

\* a wrong size resolution: the subcategory-qualified key is never looked up
get_size_for_category_CategoryOnly(category, subcategory) ==
    Get(SIZE_DEFAULTS, category, 64)

get_size_for_category(category, subcategory) ==
    IF Truthy(subcategory) /\ (category \o "." \o subcategory) \in DOMAIN SIZE_DEFAULTS
    THEN SIZE_DEFAULTS[category \o "." \o subcategory]
    ELSE Get(SIZE_DEFAULTS, category, 64)

\* ", ".join(parts)
RECURSIVE JoinComma(_)
JoinComma(parts) ==
    IF Len(parts) = 0 THEN ""
    ELSE IF Len(parts) = 1 THEN parts[1]
    ELSE parts[1] \o ", " \o JoinComma(Tail(parts))

\* a wrong composition: the caller's prompt comes first, not last
build_prompt_PromptFirst(base_prompt, category, size, frames, god, style_guide) ==
    LET style == Get(style_guide, "base_style", DEFAULT_STYLE_PROMPT)
        aesthetic == Get(style_guide, "aesthetic", DEFAULT_AESTHETIC)
        sz == ToString(size)
        layout ==
            IF frames > 1
            THEN "sprite sheet with " \o ToString(frames)
                 \o " frames arranged horizontally, total image size "
                 \o ToString(size * frames) \o "x" \o sz \o " pixels, each frame "
                 \o sz \o "x" \o sz \o " pixels"
            ELSE "single sprite, " \o sz \o "x" \o sz \o " pixels"
        palette ==
            IF Truthy(god) /\ god \in DOMAIN GOD_PALETTES
            THEN <<"using " \o GOD_PALETTES[god].description \o " color palette">>
            ELSE <<>>
    IN JoinComma(<<base_prompt, style, layout, aesthetic>> \o palette)

build_prompt(base_prompt, category, size, frames, god, style_guide) ==
    LET style == Get(style_guide, "base_style", DEFAULT_STYLE_PROMPT)
        aesthetic == Get(style_guide, "aesthetic", DEFAULT_AESTHETIC)
        sz == ToString(size)
        layout ==
            IF frames > 1
            THEN "sprite sheet with " \o ToString(frames)
                 \o " frames arranged horizontally, total image size "
                 \o ToString(size * frames) \o "x" \o sz \o " pixels, each frame "
                 \o sz \o "x" \o sz \o " pixels"
            ELSE "single sprite, " \o sz \o "x" \o sz \o " pixels"
        palette ==
            IF Truthy(god) /\ god \in DOMAIN GOD_PALETTES
            THEN <<"using " \o GOD_PALETTES[god].description \o " color palette">>
            ELSE <<>>
    IN JoinComma(<<style, layout, aesthetic>> \o palette \o <<base_prompt>>)

(***************************************************************************)
(* The provider's response stream.  A chunk either has no candidates,      *)
(* content or parts ("skip"), or carries a first part with optional inline *)
(* data and optional text ("part"); "raise" is the point where the stream  *)
(* (the transport, the provider) raises an exception.                      *)
(***************************************************************************)
SkipChunk == [kind |-> "skip", data |-> None, text |-> None]

ImageChunk(bytes) == [kind |-> "part", data |-> bytes, text |-> None]

TextChunk(t) == [kind |-> "part", data |-> None, text |-> t]

RaiseChunk == [kind |-> "raise", data |-> None, text |-> None]

\* f"{x}" of an optional string
Str(x) == IF x = None THEN "None" ELSE x

\* The for loop of cmd_generate over the stream, chunk by chunk.  acc is the
\* loop's state: whether and what was written to output_path, image_saved,
\* the notes printed, and whether the loop was left by an exception.
ConsumeChunk(acc, chunk) ==
    IF chunk.kind = "raise" THEN [acc EXCEPT !.raised = TRUE]
    ELSE IF chunk.kind = "skip" THEN acc
    ELSE IF Truthy(chunk.data)
         THEN [acc EXCEPT !.wrote = TRUE, !.data = chunk.data, !.image_saved = TRUE]
    ELSE IF Truthy(chunk.text)
         THEN [acc EXCEPT !.notes = Append(acc.notes, chunk.text)]
    ELSE acc

RECURSIVE ConsumeStream(_, _)
ConsumeStream(stream, acc) ==
    IF Len(stream) = 0 \/ acc.raised THEN acc
    ELSE ConsumeStream(Tail(stream), ConsumeChunk(acc, Head(stream)))

StreamStart == [wrote |-> FALSE, data |-> None, image_saved |-> FALSE,
                notes |-> <<>>, raised |-> FALSE]

(***************************************************************************)
(* generate                                                                *)
(***************************************************************************)
IsDirect(args) == args.output = "direct" \/ args.auto_apply

\* the directory of an asset in the used tree
GenerateOutputDir(args) ==
    IF Truthy(args.subcategory)
    THEN Join(Join(UsedRoot, args.category), args.subcategory)
    ELSE Join(UsedRoot, args.category)

StagingDir(uuid) == Append(StagingRoot, uuid)

GenerateOutputPath(args, asset_id) ==
    IF IsDirect(args)
    THEN Append(GenerateOutputDir(args), Str(args.name) \o ".png")
    ELSE Append(StagingDir(asset_id), "sprite.png")

GenerateMetadataPath(args, asset_id) ==
    IF IsDirect(args)
    THEN Append(GenerateOutputDir(args), Str(args.name) \o ".meta.json")
    ELSE Append(StagingDir(asset_id), "metadata.json")

GenerateStatus(args) == IF IsDirect(args) THEN "used" ELSE "staging"

GenerateSize(args) ==
    IF args.size = NoInt
    THEN get_size_for_category(args.category, args.subcategory)
    ELSE CHOOSE n \in args.size : TRUE

GenerateAssetKey(category, subcategory, name) ==
    IF Truthy(subcategory)
    THEN Str(category) \o "." \o Str(subcategory) \o "." \o Str(name)
    ELSE Str(category) \o "." \o Str(name)

GenerateMetadata(args, asset_id, size, full_prompt, t) ==
    [id |-> asset_id,
     created_at |-> t,
     prompt |-> args.prompt,
     full_prompt |-> full_prompt,
     god_palette |-> args.god,
     category |-> args.category,
     subcategory |-> args.subcategory,
     name |-> args.name,
     size |-> size,
     frames |-> args.frames,
     status |-> GenerateStatus(args)]

\* a wrong generate: the manifest entry carries the default frame count
GenerateRecord_DefaultFrames(D, args, size) ==
    LET manifest == load_manifest(D)
        asset_key == GenerateAssetKey(args.category, args.subcategory, args.name)
        entry == [path |-> RelativeToProject(GenerateOutputPath(args, None)),
                  frames |-> 1,
                  size |-> size]
    IN save_manifest(D, [manifest EXCEPT !.assets = Put(manifest.assets, asset_key, entry)])

\* manifest["assets"][key] = {...}; save_manifest(manifest)
GenerateRecord(D, args, size) ==
    LET manifest == load_manifest(D)
        asset_key == GenerateAssetKey(args.category, args.subcategory, args.name)
        entry == [path |-> RelativeToProject(GenerateOutputPath(args, None)),
                  frames |-> args.frames,
                  size |-> size]
    IN save_manifest(D, [manifest EXCEPT !.assets = Put(manifest.assets, asset_key, entry)])

\* a wrong generate: an exception of the stream is swallowed
GenerateFailed_IgnoreRaise(loop) == ~loop.image_saved

\* `if not image_saved: return 1` and `except Exception: return 1`
GenerateFailed(loop) == loop.raised \/ ~loop.image_saved

\* cmd_generate: the disk it leaves, its return value, what it printed as
\* API notes and the manifest key it recorded.  has_key is whether
\* get_api_client finds an API key (it exits the process otherwise).
cmd_generate(D, args, has_key, asset_id, stream, t) ==
    LET D1 == ensure_directories(D)
        style_guide == load_style_guide(D1)
        size == GenerateSize(args)
        full_prompt == build_prompt(args.prompt, args.category, size, args.frames,
                                    args.god, style_guide)
        D2 == IF IsDirect(args)
              THEN Mkdir(D1, GenerateOutputDir(args))
              ELSE Mkdir(D1, StagingDir(asset_id))
        output_path == GenerateOutputPath(args, asset_id)
        metadata_path == GenerateMetadataPath(args, asset_id)
        loop == ConsumeStream(stream, StreamStart)
        D3 == IF loop.wrote THEN WriteFile(D2, output_path, loop.data) ELSE D2
        D4 == WriteFile(D3, metadata_path,
                        GenerateMetadata(args, asset_id, size, full_prompt, t))
        D5 == IF GenerateStatus(args) = "used" THEN GenerateRecord(D4, args, size) ELSE D4
    IN IF ~has_key
       THEN [disk |-> D1, result |-> 1, exited |-> TRUE, notes |-> <<>>, key |-> None]
       ELSE IF GenerateFailed(loop)
       THEN [disk |-> D3, result |-> 1, exited |-> FALSE, notes |-> loop.notes,
             key |-> None]
       ELSE [disk |-> D5, result |-> 0, exited |-> FALSE, notes |-> loop.notes,
             key |-> IF GenerateStatus(args) = "used"
                     THEN GenerateAssetKey(args.category, args.subcategory, args.name)
                     ELSE None]

(***************************************************************************)
(* approve                                                                 *)
(***************************************************************************)
ApproveCategory(args, meta) == Or(args.category, Get(meta, "category", None))

\* a wrong approve: the subcategory is the explicit argument alone
ApproveSubcategory_ExplicitOnly(args, meta) == args.subcategory

ApproveSubcategory(args, meta) == Or(args.subcategory, Get(meta, "subcategory", None))

ApproveName(args, meta) == Or(args.name, Get(meta, "name", None))

\* a wrong approve: only the category is required
ApproveMissingFields_CategoryOnly(category, name) == ~Truthy(category)

ApproveMissingFields(category, name) == ~Truthy(category) \/ ~Truthy(name)

ApproveDestDir(category, subcategory) ==
    IF Truthy(subcategory)
    THEN Join(Join(UsedRoot, category), subcategory)
    ELSE Join(UsedRoot, category)

ApproveDestSprite(category, subcategory, name) ==
    Append(ApproveDestDir(category, subcategory), Str(name) \o ".png")

ApproveDestMeta(category, subcategory, name) ==
    Append(ApproveDestDir(category, subcategory), Str(name) \o ".meta.json")

\* shutil.copy2(src_sprite, dest_sprite)
\* a wrong approve: the image is moved out of staging, not copied
ApproveCopy_Move(D, src_sprite, dest_sprite) ==
    LET W == WriteFile(D, dest_sprite, D.files[src_sprite])
    IN [W EXCEPT !.files = [q \in DOMAIN W.files \ {src_sprite} |-> W.files[q]]]

\* a wrong approve: the image is not copied at all
ApproveCopy_Skip(D, src_sprite, dest_sprite) == D

ApproveCopy(D, src_sprite, dest_sprite) == WriteFile(D, dest_sprite, D.files[src_sprite])

\* meta["status"] = "used"; meta["approved_at"] = now; dump to dest_meta
ApproveMetadata(meta, t) == Put(Put(meta, "status", "used"), "approved_at", t)

\* a wrong approve: the key leaves the subcategory out
ApproveAssetKey_NoSubcategory(category, subcategory, name) ==
    Str(category) \o "." \o Str(name)

ApproveAssetKey(category, subcategory, name) ==
    IF Truthy(subcategory)
    THEN Str(category) \o "." \o Str(subcategory) \o "." \o Str(name)
    ELSE Str(category) \o "." \o Str(name)

\* a wrong Record: the entry is put into a fresh manifest, not the loaded one
ApproveRecord_FreshManifest(D, meta, asset_key, dest_sprite) ==
    LET manifest == [version |-> 1, assets |-> EmptyAssets]
        entry == [path |-> RelativeToProject(dest_sprite),
                  frames |-> Get(meta, "frames", 1),
                  size |-> Get(meta, "size", 64)]
    IN save_manifest(D, [manifest EXCEPT !.assets = Put(manifest.assets, asset_key, entry)])

ApproveRecord(D, meta, asset_key, dest_sprite) ==
    LET manifest == load_manifest(D)
        entry == [path |-> RelativeToProject(dest_sprite),
                  frames |-> Get(meta, "frames", 1),
                  size |-> Get(meta, "size", 64)]
    IN save_manifest(D, [manifest EXCEPT !.assets = Put(manifest.assets, asset_key, entry)])

\* cmd_approve: the disk it leaves, its return value (or the exception it
\* raises) and the manifest key it recorded
cmd_approve(D, args, t) ==
    LET D1 == ensure_directories(D)
        staging_dir == StagingDir(args.uuid)
        meta_path == Append(staging_dir, "metadata.json")
        meta == D1.files[meta_path]
        category == ApproveCategory(args, meta)
        subcategory == ApproveSubcategory(args, meta)
        name == ApproveName(args, meta)
        D2 == Mkdir(D1, ApproveDestDir(category, subcategory))
        src_sprite == Append(staging_dir, "sprite.png")
        dest_sprite == ApproveDestSprite(category, subcategory, name)
        dest_meta == ApproveDestMeta(category, subcategory, name)
        D3 == ApproveCopy(D2, src_sprite, dest_sprite)
        meta2 == ApproveMetadata(meta, t)
        D4 == WriteFile(D3, dest_meta, meta2)
        asset_key == ApproveAssetKey(category, subcategory, name)
        D5 == ApproveRecord(D4, meta2, asset_key, dest_sprite)
        D6 == Rmtree(D5, staging_dir)
    IN IF ~Exists(D1, staging_dir)
       THEN [disk |-> D1, result |-> 1, error |-> "NotFound", key |-> None]
       ELSE IF ~Exists(D1, meta_path)
       THEN [disk |-> D1, result |-> 1, error |-> "NotFound", key |-> None]
       ELSE IF ApproveMissingFields(category, name)
       THEN [disk |-> D1, result |-> 1, error |-> "MissingFields", key |-> None]
       ELSE IF ~Exists(D2, src_sprite)
       THEN [disk |-> D2, result |-> 1, error |-> "raised", key |-> None]
       ELSE [disk |-> D6, result |-> 0, error |-> None, key |-> asset_key]

(***************************************************************************)
(* reject                                                                  *)
(***************************************************************************)
AlternativesDir(uuid) == Append(AlternativesRoot, uuid)

RejectMetadata(meta, reason, t) ==
    Put(Put(Put(meta, "status", "rejected"), "rejection_reason", reason), "rejected_at", t)

\* a wrong reject: the staging directory is not looked for before the move
cmd_reject_NoCheck(D, args, t) ==
    LET D1 == ensure_directories(D)
        staging_dir == StagingDir(args.uuid)
        alt_dir == AlternativesDir(args.uuid)
        D2 == Move(D1, staging_dir, alt_dir)
        meta_path == Append(alt_dir, "metadata.json")
        D3 == IF Exists(D2, meta_path)
              THEN WriteFile(D2, meta_path,
                             RejectMetadata(D2.files[meta_path], args.reason, t))
              ELSE D2
    IN [disk |-> D3, result |-> 0, error |-> None]

cmd_reject(D, args, t) ==
    LET D1 == ensure_directories(D)
        staging_dir == StagingDir(args.uuid)
        alt_dir == AlternativesDir(args.uuid)
        D2 == Move(D1, staging_dir, alt_dir)
        meta_path == Append(alt_dir, "metadata.json")
        D3 == IF Exists(D2, meta_path)
              THEN WriteFile(D2, meta_path,
                             RejectMetadata(D2.files[meta_path], args.reason, t))
              ELSE D2
    IN IF ~Exists(D1, staging_dir)
       THEN [disk |-> D1, result |-> 1, error |-> "NotFound"]
       ELSE IF MoveRaises(D1, staging_dir, alt_dir)
       THEN [disk |-> D1, result |-> 1, error |-> "raised"]
       ELSE [disk |-> D3, result |-> 0, error |-> None]

(***************************************************************************)
(* apply                                                                   *)
(***************************************************************************)
FileName(p) == p[Len(p)]

Parent(p) == SubSeq(p, 1, Len(p) - 1)

\* Path.stem and Path.with_suffix on the file names of the model.  A name's
\* suffix is the part from its last dot on, unless that dot is the name's
\* first character; the names of the model carry no dot but the ones the
\* program appends, so the last suffix is one of FileSuffixes.
FileSuffixes == {".png", ".json"}

StemCandidates == NameUniverse \cup {n \o ".meta" : n \in NameUniverse}

HasSuffix(filename) ==
    \E st \in StemCandidates, sx \in FileSuffixes : st # "" /\ filename = st \o sx

Stem(filename) ==
    IF HasSuffix(filename)
    THEN CHOOSE st \in StemCandidates :
             st # "" /\ \E sx \in FileSuffixes : filename = st \o sx
    ELSE filename

WithSuffix(p, suffix) == Append(Parent(p), Stem(FileName(p)) \o suffix)

\* ".".join(parts)
RECURSIVE JoinDot(_)
JoinDot(parts) ==
    IF Len(parts) = 0 THEN ""
    ELSE IF Len(parts) = 1 THEN parts[1]
    ELSE parts[1] \o "." \o JoinDot(Tail(parts))

ApplyMetaPath(asset_path) == WithSuffix(asset_path, ".meta.json")

ApplyMeta(D, asset_path) ==
    IF Exists(D, ApplyMetaPath(asset_path))
    THEN D.files[ApplyMetaPath(asset_path)]
    ELSE EmptyAssets

\* asset_path.relative_to(SPRITES_ROOT / "used") raises for a path elsewhere
ApplyPathRaises(asset_path) == ~IsPrefix(UsedRoot, asset_path)

ApplyAssetKey(meta, asset_path) ==
    IF DOMAIN meta # {}
    THEN LET category == Get(meta, "category", "unknown")
             subcategory == Get(meta, "subcategory", None)
             name == Get(meta, "name", Stem(FileName(asset_path)))
         IN IF Truthy(subcategory)
            THEN Str(category) \o "." \o Str(subcategory) \o "." \o Str(name)
            ELSE Str(category) \o "." \o Str(name)
    ELSE LET parts == SubSeq(asset_path, Len(UsedRoot) + 1, Len(asset_path))
         IN JoinDot(SubSeq(parts, 1, Len(parts) - 1)) \o "." \o Stem(FileName(asset_path))

ApplyRecord(D, meta, asset_key, asset_path) ==
    LET manifest == load_manifest(D)
        entry == [path |-> RelativeToProject(asset_path),
                  frames |-> Get(meta, "frames", 1),
                  size |-> Get(meta, "size", 64)]
    IN save_manifest(D, [manifest EXCEPT !.assets = Put(manifest.assets, asset_key, entry)])

cmd_apply(D, args) ==
    LET asset_path == args.path
        meta == ApplyMeta(D, asset_path)
        asset_key == ApplyAssetKey(meta, asset_path)
    IN IF ~Exists(D, asset_path)
       THEN [disk |-> D, result |-> 1, error |-> "NotFound", key |-> None]
       ELSE IF DOMAIN meta = {} /\ ApplyPathRaises(asset_path)
       THEN [disk |-> D, result |-> 1, error |-> "raised", key |-> None]
       ELSE [disk |-> ApplyRecord(D, meta, asset_key, asset_path), result |-> 0,
             error |-> None, key |-> asset_key]

(***************************************************************************)
(* init, list                                                              *)
(***************************************************************************)
cmd_init(D) ==
    LET D1 == ensure_directories(D)
        D2 == IF ~Exists(D1, STYLE_GUIDE_PATH)
              THEN save_style_guide(D1, [base_style |-> DEFAULT_STYLE_PROMPT,
                                         palettes |-> GOD_PALETTES])
              ELSE D1
        D3 == IF ~Exists(D2, MANIFEST_PATH)
              THEN save_manifest(D2, [version |-> 1, assets |-> EmptyAssets])
              ELSE D2
    IN [disk |-> D3, result |-> 0]

\* cmd_list prints; "staging" and "alternatives" first run ensure_directories
cmd_list(D, args) ==
    [disk |-> IF args.status \in {"staging", "alternatives"}
              THEN ensure_directories(D) ELSE D,
     result |-> 0]

(***************************************************************************)
(* batch                                                                   *)
(***************************************************************************)
\* item.get("size"): None when the item has no size
BatchItemSize(item) == IF "size" \in DOMAIN item THEN {item["size"]} ELSE NoInt

\* the args-like object cmd_batch builds for item number i of the file
BatchGenArgs(item, i, auto_apply) ==
    [category |-> Get(item, "category", "player"),
     subcategory |-> Get(item, "subcategory", None),
     name |-> Get(item, "name", "sprite_" \o ToString(i)),
     prompt |-> Get(item, "prompt", ""),
     god |-> Get(item, "god", None),
     frames |-> Get(item, "frames", 1),
     size |-> BatchItemSize(item),
     output |-> IF auto_apply THEN "direct" ELSE "staging",
     auto_apply |-> auto_apply]

\* one turn of the loop of cmd_batch: cmd_generate on item number i; its
\* result is only printed
BatchIteration(D, items, i, auto_apply, has_key, asset_id, stream, t) ==
    cmd_generate(D, BatchGenArgs(items[i], i, auto_apply), has_key, asset_id, stream, t)

(***************************************************************************)
(* The state machine: one command of the tool per step.                    *)
(***************************************************************************)
Disk == [files |-> files, dirs |-> dirs, skeleton |-> skeleton]

EmptyFiles == [p \in {} |-> None]

EmptyDisk == [files |-> EmptyFiles, dirs |-> {}, skeleton |-> FALSE]

Chunks == {SkipChunk, ImageChunk("imgA"), ImageChunk("imgB"), TextChunk("note"), RaiseChunk}

\* all response streams of at most MaxChunks chunks
Streams == UNION {[1..n -> Chunks] : n \in 0..MaxChunks}

\* the empty response and the response of one image
PlainStreams == {<<>>, <<ImageChunk("imgA")>>}

ApproveArgs ==
    {[uuid |-> u, category |-> c, subcategory |-> sc, name |-> n] :
        u \in AssetIds, c \in ApproveCategories, sc \in ApproveSubcategories,
        n \in ApproveNames}

RejectArgs == {[uuid |-> u, reason |-> r] : u \in AssetIds, r \in Reasons}

\* apply is run on a file of the disk or on a path that does not exist
MissingPath == <<"used", "player", "missing.png">>

ApplyPaths == DOMAIN files \cup {MissingPath}

Init ==
    /\ files = EmptyFiles
    /\ dirs = {}
    /\ skeleton = FALSE
    /\ now = 0
    /\ last = [cmd |-> "none"]

\* a command leaves the disk r.disk; the clock has moved on
Leaves(r) ==
    /\ files' = r.disk.files
    /\ dirs' = r.disk.dirs
    /\ skeleton' = r.disk.skeleton
    /\ now' = now + 1

GenerateWith(argset, streams) ==
    \E args \in argset, asset_id \in AssetIds, stream \in streams :
        \E r \in {cmd_generate(Disk, args, TRUE, asset_id, stream, now)} :
           /\ Leaves(r)
           /\ last' = [cmd |-> "generate", args |-> args, id |-> asset_id,
                       stream |-> stream, result |-> r.result, exited |-> r.exited,
                       notes |-> r.notes, key |-> r.key]

Generate ==
    /\ now < MaxCmds
    /\ GenerateWith(LifecycleArgs, PlainStreams)

\* generate without an API key in the environment: the process exits
GenerateNoKey ==
    /\ now < MaxCmds
    /\ \E args \in LifecycleArgs, asset_id \in AssetIds :
        \E r \in {cmd_generate(Disk, args, FALSE, asset_id, <<>>, now)} :
           /\ Leaves(r)
           /\ last' = [cmd |-> "generate", result |-> r.result, exited |-> r.exited]

Approve ==
    /\ now < MaxCmds
    /\ \E args \in ApproveArgs :
        \E r \in {cmd_approve(Disk, args, now)} :
           /\ Leaves(r)
           /\ last' = [cmd |-> "approve", args |-> args, result |-> r.result,
                       error |-> r.error, key |-> r.key]

Reject ==
    /\ now < MaxCmds
    /\ \E args \in RejectArgs :
        \E r \in {cmd_reject(Disk, args, now)} :
           /\ Leaves(r)
           /\ last' = [cmd |-> "reject", args |-> args, result |-> r.result,
                       error |-> r.error]

Apply ==
    /\ now < MaxCmds
    /\ \E path \in ApplyPaths :
        \E r \in {cmd_apply(Disk, [path |-> path])} :
           /\ Leaves(r)
           /\ last' = [cmd |-> "apply", args |-> [path |-> path], result |-> r.result,
                       error |-> r.error, key |-> r.key]

InitCmd ==
    /\ now < MaxCmds
    /\ \E r \in {cmd_init(Disk)} :
           /\ Leaves(r)
           /\ last' = [cmd |-> "init", result |-> r.result]

List ==
    /\ now < MaxCmds
    /\ \E status \in {"staging", "used", "alternatives"} :
        \E r \in {cmd_list(Disk, [status |-> status])} :
           /\ Leaves(r)
           /\ last' = [cmd |-> "list", args |-> [status |-> status], result |-> r.result]

Next ==
    \/ Generate
    \/ GenerateNoKey
    \/ Approve
    \/ Reject
    \/ Apply
    \/ InitCmd
    \/ List

Spec == Init /\ [][Next]_vars

(***************************************************************************)
(* One generate command against every response stream, run on the empty   *)
(* disk or on the disk an earlier direct generate has left.                *)
(***************************************************************************)
PreparedDisks ==
    {EmptyDisk}
    \cup {cmd_generate(EmptyDisk, args, TRUE, u, <<ImageChunk("imgA")>>, 0).disk :
            args \in {a \in StreamedArgs : a.output = "direct"}, u \in AssetIds}

InitGen ==
    /\ \E D \in PreparedDisks :
        /\ files = D.files
        /\ dirs = D.dirs
        /\ skeleton = D.skeleton
    /\ now = 1
    /\ last = [cmd |-> "none"]

GenerateStreamed ==
    /\ last.cmd = "none"
    /\ GenerateWith(StreamedArgs, Streams)

NextGen == GenerateStreamed

SpecGen == InitGen /\ [][NextGen]_vars

(***************************************************************************)
(* One batch command, item by item: `last` holds the position of the loop  *)
(* (i items done), the result of each cmd_generate call and, once the      *)
(* command has returned, its return value.                                 *)
(***************************************************************************)
MaxItems == 3

BatchItems ==
    {[name |-> "idle", category |-> "player", prompt |-> "standing hero"],
     [category |-> "enemy", subcategory |-> "minor", prompt |-> "green slime",
      god |-> "zeus", frames |-> 4, size |-> 32]}

\* the batch files: no file at the path, or a file of at most MaxItems items
BatchFiles ==
    {[exists |-> FALSE, items |-> <<>>]}
    \cup {[exists |-> TRUE, items |-> s] :
            s \in UNION {[1..n -> BatchItems] : n \in 0..MaxItems}}

\* the provider's answers to one item: nothing, an image, an image and
\* then an error, an error
BatchStreams ==
    {<<>>, <<ImageChunk("imgA")>>, <<ImageChunk("imgB"), RaiseChunk>>, <<RaiseChunk>>}

\* uuid4 gives the items of one batch different ids
BatchAssetId(i) == "b" \o ToString(i)

InitBatch ==
    /\ files = EmptyFiles
    /\ dirs = {}
    /\ skeleton = FALSE
    /\ now = 0
    /\ \E f \in BatchFiles, auto_apply \in BOOLEAN, has_key \in BOOLEAN :
          last = [cmd |-> "batch", pc |-> "start",
                  args |-> [manifest |-> f, auto_apply |-> auto_apply],
                  has_key |-> has_key, i |-> 0, results |-> <<>>, streams |-> <<>>]

\* `if not manifest_file.exists(): return 1`
BatchNotFound ==
    /\ last.cmd = "batch" /\ last.pc = "start"
    /\ ~last.args.manifest.exists
    /\ last' = Put([last EXCEPT !.pc = "done"], "result", 1)
    /\ UNCHANGED <<files, dirs, skeleton, now>>

\* the batch file is read; the loop starts
BatchLoad ==
    /\ last.cmd = "batch" /\ last.pc = "start"
    /\ last.args.manifest.exists
    /\ last' = [last EXCEPT !.pc = "loop"]
    /\ UNCHANGED <<files, dirs, skeleton, now>>

\* the loop body on the next item of the file
BatchItem ==
    /\ last.cmd = "batch" /\ last.pc = "loop"
    /\ last.i < Len(last.args.manifest.items)
    /\ \E stream \in BatchStreams :
        \E r \in {BatchIteration(Disk, last.args.manifest.items, last.i + 1,
                                  last.args.auto_apply, last.has_key,
                                  BatchAssetId(last.i + 1), stream, now)} :
           /\ Leaves(r)
           /\ last' = [last EXCEPT !.i = last.i + 1,
                                   !.results = Append(last.results, r.result),
                                   !.streams = Append(last.streams, stream),
                                   !.pc = IF r.exited THEN "exited" ELSE "loop"]

\* the loop is over: `return 0`
BatchComplete ==
    /\ last.cmd = "batch" /\ last.pc = "loop"
    /\ last.i = Len(last.args.manifest.items)
    /\ last' = Put([last EXCEPT !.pc = "done"], "result", 0)
    /\ UNCHANGED <<files, dirs, skeleton, now>>

NextBatch ==
    \/ BatchNotFound
    \/ BatchLoad
    \/ BatchItem
    \/ BatchComplete

SpecBatch == InitBatch /\ [][NextBatch]_vars

(***************************************************************************)
(* The functions of the tool, each called once on inputs of its domain;    *)
(* `last` holds the call and what it returned.                             *)
(***************************************************************************)
SizeCategories ==
    {"player", "enemy", "terrain", "weapon", "effect", "ui", "unknown_category"}

SizeSubcategories ==
    {None, "", "minor", "major", "boss", "platform", "wall", "background",
     "tileset", "icon", "bar", "base"}

\* the style guides build_prompt is given: the one load_style_guide returns
\* without a file, the one cmd_init writes, an edited one, an empty one
StyleGuides ==
    {load_style_guide(EmptyDisk),
     load_style_guide(cmd_init(EmptyDisk).disk),
     [base_style |-> "chunky pixels", aesthetic |-> "film noir", palettes |-> GOD_PALETTES],
     EmptyAssets}

PromptGods == {None, "zeus", "ares", "hades"}

PromptSizes == {32, 64}

PromptFrames == {1, 2, 4}

CallSizeFor ==
    /\ last.cmd = "none"
    /\ \E category \in SizeCategories, subcategory \in SizeSubcategories :
          last' = [cmd |-> "get_size_for_category", category |-> category,
                   subcategory |-> subcategory,
                   result |-> get_size_for_category(category, subcategory)]
    /\ UNCHANGED <<files, dirs, skeleton, now>>

CallBuildPrompt ==
    /\ last.cmd = "none"
    /\ \E base_prompt \in {"green slime", ""}, size \in PromptSizes,
          frames \in PromptFrames, god \in PromptGods, style_guide \in StyleGuides :
          last' = [cmd |-> "build_prompt", base_prompt |-> base_prompt, size |-> size,
                   frames |-> frames, god |-> god, style_guide |-> style_guide,
                   result |-> build_prompt(base_prompt, "player", size, frames, god,
                                           style_guide)]
    /\ UNCHANGED <<files, dirs, skeleton, now>>

ManifestKeys == {"player.idle", "enemy.minor.slime"}

ManifestEntries ==
    [path : {RelativeToProject(<<"used", "player", "idle.png">>),
             RelativeToProject(<<"used", "enemy", "minor", "slime.png">>)},
     frames : {1, 4},
     size : {32, 64}]

\* manifest documents: a version and a mapping from keys to entries
ManifestDocuments ==
    [version : {1, 2},
     assets : UNION {[ks -> ManifestEntries] : ks \in SUBSET ManifestKeys}]

CallSaveManifest ==
    /\ last.cmd = "none"
    /\ \E manifest \in ManifestDocuments :
        \E D \in {save_manifest(Disk, manifest)} :
          /\ files' = D.files
          /\ dirs' = D.dirs
          /\ skeleton' = D.skeleton
          /\ last' = [cmd |-> "save_manifest", manifest |-> manifest]
    /\ UNCHANGED now

CallLoadManifest ==
    /\ last.cmd \in {"none", "save_manifest"}
    /\ last' = [cmd |-> "load_manifest", result |-> load_manifest(Disk)]
    /\ UNCHANGED <<files, dirs, skeleton, now>>

NextFn ==
    \/ CallSizeFor
    \/ CallBuildPrompt
    \/ CallSaveManifest
    \/ CallLoadManifest

SpecFn == Init /\ [][NextFn]_vars

(***************************************************************************)
(* Commands on a disk that already holds recorded assets and a staged one. *)
(***************************************************************************)
\* the disk after a generate that got one image
Generated(D, args, asset_id, t) ==
    cmd_generate(D, args, TRUE, asset_id, <<ImageChunk("imgA")>>, t).disk

\* used/player/idle and used/enemy/boss/idle recorded, u1 staged for
\* (player, idle) with other frames and size
RecordedDisk ==
    Generated(
      Generated(
        Generated(EmptyDisk,
                  [category |-> "player", subcategory |-> None, name |-> "idle",
                   prompt |-> "standing hero", god |-> None, frames |-> 1,
                   size |-> NoInt, output |-> "direct", auto_apply |-> FALSE],
                  "u2", 0),
        [category |-> "enemy", subcategory |-> "boss", name |-> "idle",
         prompt |-> "green slime", god |-> "zeus", frames |-> 4, size |-> {32},
         output |-> "staging", auto_apply |-> TRUE],
        "u3", 0),
      [category |-> "player", subcategory |-> None, name |-> "idle",
       prompt |-> "green slime", god |-> "zeus", frames |-> 4, size |-> {32},
       output |-> "staging", auto_apply |-> FALSE],
      "u1", 0)

\* the same disk with a manifest document of version 2
RecordedDiskV2 ==
    save_manifest(RecordedDisk, [load_manifest(RecordedDisk) EXCEPT !.version = 2])

\* the staged entry alone, no manifest file yet
StagedDisk ==
    Generated(EmptyDisk,
              [category |-> "player", subcategory |-> None, name |-> "idle",
               prompt |-> "green slime", god |-> "zeus", frames |-> 4, size |-> {32},
               output |-> "staging", auto_apply |-> FALSE],
              "u1", 0)

RecordDisks == {RecordedDisk, RecordedDiskV2, StagedDisk}

InitRecord ==
    /\ \E D \in RecordDisks :
        /\ files = D.files
        /\ dirs = D.dirs
        /\ skeleton = D.skeleton
    /\ now = 1
    /\ last = [cmd |-> "none"]

GenerateRecorded ==
    /\ now < MaxCmds
    /\ GenerateWith(StreamedArgs, PlainStreams)

NextRecord ==
    \/ GenerateRecorded
    \/ Approve
    \/ Apply
    \/ Reject
    \/ InitCmd

SpecRecord == InitRecord /\ [][NextRecord]_vars

(***************************************************************************)
(* One approve command, one file operation per step, with the process      *)
(* crashing (killed, power lost) between two of them.  `last` holds the    *)
(* position: copy, metadata, manifest, remove, then done or crashed.       *)
(***************************************************************************)
ApproveDisks ==
    {RecordedDisk, StagedDisk,
     cmd_generate(EmptyDisk,
                  [category |-> "player", subcategory |-> "minor", name |-> "idle",
                   prompt |-> "green slime", god |-> "zeus", frames |-> 4, size |-> {32},
                   output |-> "staging", auto_apply |-> FALSE],
                  TRUE, "u1", <<ImageChunk("imgA")>>, 0).disk,
     cmd_generate(EmptyDisk,
                  [category |-> "player", subcategory |-> None, name |-> "idle",
                   prompt |-> "green slime", god |-> "zeus", frames |-> 4, size |-> {32},
                   output |-> "staging", auto_apply |-> FALSE],
                  TRUE, "u1", <<>>, 0).disk}

InitApprove ==
    /\ \E D \in ApproveDisks :
        /\ files = D.files
        /\ dirs = D.dirs
        /\ skeleton = D.skeleton
    /\ now = 1
    /\ last = [cmd |-> "none"]

\* the staged entry, its metadata and the resolved destination of an approve
\* in progress
ApproveStagingDir == StagingDir(last.args.uuid)

ApproveStagedMeta == last.start.files[Append(ApproveStagingDir, "metadata.json")]

ApproveResolvedCategory == ApproveCategory(last.args, ApproveStagedMeta)

ApproveResolvedSubcategory == ApproveSubcategory(last.args, ApproveStagedMeta)

ApproveResolvedName == ApproveName(last.args, ApproveStagedMeta)

\* a step of the approve in progress leaves the disk D at position pc
ApproveAt(D, pc) ==
    /\ files' = D.files
    /\ dirs' = D.dirs
    /\ skeleton' = D.skeleton
    /\ last' = [last EXCEPT !.pc = pc]
    /\ UNCHANGED now

\* ensure_directories, the NotFound and MissingFields checks, mkdir of the
\* destination
ApproveBegin ==
    /\ last.cmd = "none"
    /\ \E args \in ApproveArgs :
        \E D1 \in {ensure_directories(Disk)} :
          LET staging_dir == StagingDir(args.uuid)
              meta_path == Append(staging_dir, "metadata.json")
              found == Exists(D1, staging_dir) /\ Exists(D1, meta_path)
              meta == D1.files[meta_path]
              category == ApproveCategory(args, meta)
              subcategory == ApproveSubcategory(args, meta)
              name == ApproveName(args, meta)
              fails == ~found \/ ApproveMissingFields(category, name)
              D2 == IF fails THEN D1 ELSE Mkdir(D1, ApproveDestDir(category, subcategory))
          IN /\ files' = D2.files
             /\ dirs' = D2.dirs
             /\ skeleton' = D2.skeleton
             /\ last' = [cmd |-> "approve", args |-> args, start |-> Disk,
                         pc |-> IF fails THEN "done" ELSE "copy",
                         at |-> "none",
                         result |-> IF fails THEN 1 ELSE 0,
                         error |-> IF ~found THEN "NotFound"
                                   ELSE IF fails THEN "MissingFields" ELSE None]
    /\ UNCHANGED now

\* shutil.copy2(src_sprite, dest_sprite)
ApproveCopyStep ==
    /\ last.cmd = "approve" /\ last.pc = "copy"
    /\ IF Exists(Disk, Append(ApproveStagingDir, "sprite.png"))
       THEN ApproveAt(ApproveCopy(Disk, Append(ApproveStagingDir, "sprite.png"),
                                  ApproveDestSprite(ApproveResolvedCategory,
                                                    ApproveResolvedSubcategory,
                                                    ApproveResolvedName)),
                      "metadata")
       ELSE /\ last' = [last EXCEPT !.pc = "done", !.result = 1, !.error = "raised"]
            /\ UNCHANGED <<files, dirs, skeleton, now>>

\* the metadata record with status used is written next to the copy
ApproveMetadataStep ==
    /\ last.cmd = "approve" /\ last.pc = "metadata"
    /\ ApproveAt(WriteFile(Disk,
                           ApproveDestMeta(ApproveResolvedCategory,
                                           ApproveResolvedSubcategory,
                                           ApproveResolvedName),
                           ApproveMetadata(ApproveStagedMeta, now)),
                 "manifest")

\* load_manifest, the entry, save_manifest
ApproveManifestStep ==
    /\ last.cmd = "approve" /\ last.pc = "manifest"
    /\ ApproveAt(ApproveRecord(Disk, ApproveMetadata(ApproveStagedMeta, now),
                               ApproveAssetKey(ApproveResolvedCategory,
                                               ApproveResolvedSubcategory,
                                               ApproveResolvedName),
                               ApproveDestSprite(ApproveResolvedCategory,
                                                 ApproveResolvedSubcategory,
                                                 ApproveResolvedName)),
                 "remove")

\* shutil.rmtree(staging_dir); return 0
ApproveRemoveStep ==
    /\ last.cmd = "approve" /\ last.pc = "remove"
    /\ ApproveAt(Rmtree(Disk, ApproveStagingDir), "done")

\* the process dies before its next file operation
ApproveCrash ==
    /\ last.cmd = "approve"
    /\ last.pc \in {"copy", "metadata", "manifest", "remove"}
    /\ last' = [last EXCEPT !.pc = "crashed", !.at = last.pc]
    /\ UNCHANGED <<files, dirs, skeleton, now>>

NextApprove ==
    \/ ApproveBegin
    \/ ApproveCopyStep
    \/ ApproveMetadataStep
    \/ ApproveManifestStep
    \/ ApproveRemoveStep
    \/ ApproveCrash

SpecApprove == InitApprove /\ [][NextApprove]_vars

(***************************************************************************)
(* Two invocations of the tool at their Record: each loads the manifest,   *)
(* sets its key and saves the whole document.  `last` holds, for each      *)
(* process, its position (load, save, done) and the document it loaded,    *)
(* and the order of the loads and saves so far.  The operators run the     *)
(* invocations one after the other ("sequential") or at once               *)
(* ("concurrent").                                                         *)
(***************************************************************************)
Procs == {1, 2}

RecordKeys == {"weapon.sword", "ui.icon.heart"}

RecordEntries ==
    [path : {RelativeToProject(<<"used", "weapon", "sword.png">>),
             RelativeToProject(<<"used", "ui", "icon", "heart.png">>)},
     frames : {1, 4},
     size : {32, 64}]

InitConcurrent ==
    /\ \E D \in {EmptyDisk, cmd_init(EmptyDisk).disk, RecordedDisk, RecordedDiskV2} :
        /\ files = D.files
        /\ dirs = D.dirs
        /\ skeleton = D.skeleton
    /\ now = 1
    /\ \E mode \in {"sequential", "concurrent"}, k1 \in RecordKeys,
          e1 \in RecordEntries, e2 \in RecordEntries :
          last = [cmd |-> "record", mode |-> mode, trace |-> <<>>,
                  procs |-> [p \in Procs |->
                               [pc |-> "load",
                                key |-> IF p = 1 THEN k1
                                        ELSE CHOOSE k \in RecordKeys : k # k1,
                                entry |-> IF p = 1 THEN e1 ELSE e2,
                                manifest |-> [version |-> 1, assets |-> EmptyAssets]]]]

\* manifest = load_manifest()
RecordLoad ==
    /\ last.cmd = "record"
    /\ \E p \in Procs :
        /\ last.procs[p].pc = "load"
        /\ last.mode = "sequential" => \A q \in Procs : last.procs[q].pc # "save"
        /\ last' = [last EXCEPT !.procs[p].pc = "save",
                                !.procs[p].manifest = load_manifest(Disk),
                                !.trace = Append(last.trace, <<p, "load">>)]
    /\ UNCHANGED <<files, dirs, skeleton, now>>

\* manifest["assets"][asset_key] = {...}; save_manifest(manifest)
RecordSave ==
    /\ last.cmd = "record"
    /\ \E p \in Procs :
        /\ last.procs[p].pc = "save"
        /\ \E D \in {save_manifest(Disk,
                                    [last.procs[p].manifest EXCEPT
                                       !.assets = Put(last.procs[p].manifest.assets,
                                                      last.procs[p].key,
                                                      last.procs[p].entry)])} :
             /\ files' = D.files
             /\ dirs' = D.dirs
             /\ skeleton' = D.skeleton
        /\ last' = [last EXCEPT !.procs[p].pc = "done",
                                !.trace = Append(last.trace, <<p, "save">>)]
    /\ UNCHANGED now

NextConcurrent ==
    \/ RecordLoad
    \/ RecordSave

SpecConcurrent == InitConcurrent /\ [][NextConcurrent]_vars

(***************************************************************************)
(* What the properties below read off a state.                             *)
(***************************************************************************)
\* the disk after the step
DiskNext == [files |-> files', dirs |-> dirs', skeleton |-> skeleton']

\* the assets mapping of the manifest file among the files f
ManifestAssets(f) ==
    IF MANIFEST_PATH \in DOMAIN f
    THEN JsonLoadManifest(f[MANIFEST_PATH]).assets
    ELSE EmptyAssets

\* the key rule of the specification: category.subcategory.name with a
\* subcategory, category.name without
Derive(c, sc, n) ==
    IF sc # None /\ sc # "" THEN c \o "." \o sc \o "." \o n ELSE c \o "." \o n

\* the place of an asset in the used tree: used/c[/sc]/
UsedDirOf(c, sc) == IF sc # None /\ sc # "" THEN <<"used", c, sc>> ELSE <<"used", c>>

\* what the manifest says of an image at path p of the sprites directory
ManifestPathOf(p) == <<"assets", "sprites">> \o p

\* the files below a directory
FilesBelow(f, d) == {p \in DOMAIN f : IsPrefix(d, p)}

\* the chunks with inline image data, in stream order
ImagesOf(stream) ==
    SelectSeq(stream, LAMBDA ch : ch.kind = "part" /\ ch.data # None /\ ch.data # "")

HasRaise(stream) == \E i \in 1..Len(stream) : stream[i].kind = "raise"

\* the chunks the provider delivers: those before the point it raises at
Delivered(stream) ==
    IF HasRaise(stream)
    THEN SubSeq(stream, 1,
                (CHOOSE i \in 1..Len(stream) :
                    /\ stream[i].kind = "raise"
                    /\ \A j \in 1..(i - 1) : stream[j].kind # "raise") - 1)
    ELSE stream

(***************************************************************************)
(* C1                                                                      *)
(***************************************************************************)
\* C1 as stated: a completed approve of u with explicit category c and name
\* n and no explicit subcategory leaves no staging/u, leaves used/c/n.png
\* and used/c/n.meta.json (status used, with an approval timestamp), and
\* the manifest has key c.n with the path of used/c/n.png -- whatever the
\* stored metadata carries.
C1_ApproveLandsInCategoryDir ==
    (/\ last.cmd = "approve"
     /\ last.result = 0
     /\ Truthy(last.args.category)
     /\ Truthy(last.args.name)
     /\ ~Truthy(last.args.subcategory))
    => LET c == last.args.category
           n == last.args.name
           png == <<"used", c, n \o ".png">>
           meta == <<"used", c, n \o ".meta.json">>
           key == c \o "." \o n
       IN /\ ~Exists(Disk, <<"staging", last.args.uuid>>)
          /\ png \in DOMAIN files
          /\ meta \in DOMAIN files
          /\ files[meta].status = "used"
          /\ "approved_at" \in DOMAIN files[meta]
          /\ key \in DOMAIN ManifestAssets(files)
          /\ ManifestAssets(files)[key].path = ManifestPathOf(png)

\* C1 (amended): a completed approve of u with explicit category c and name
\* n and no explicit subcategory takes the subcategory sc of the entry's
\* stored metadata: afterwards staging/u does not exist, used/c[/sc]/n.png
\* and used/c[/sc]/n.meta.json (status used, with an approval timestamp)
\* exist, and the manifest has key derive(c, sc, n) with the path of that
\* image; with no stored subcategory these are used/c/n.* and key c.n.
C1_ApprovePostState ==
    [][(/\ last'.cmd = "approve"
        /\ last'.result = 0
        /\ Truthy(last'.args.category)
        /\ Truthy(last'.args.name)
        /\ ~Truthy(last'.args.subcategory))
       => LET c == last'.args.category
              n == last'.args.name
              sc == files[<<"staging", last'.args.uuid, "metadata.json">>].subcategory
              png == UsedDirOf(c, sc) \o <<n \o ".png">>
              meta == UsedDirOf(c, sc) \o <<n \o ".meta.json">>
              key == Derive(c, sc, n)
          IN /\ ~Exists(DiskNext, <<"staging", last'.args.uuid>>)
             /\ FilesBelow(files', <<"staging", last'.args.uuid>>) = {}
             /\ png \in DOMAIN files'
             /\ meta \in DOMAIN files'
             /\ files'[meta].status = "used"
             /\ "approved_at" \in DOMAIN files'[meta]
             /\ key \in DOMAIN ManifestAssets(files')
             /\ ManifestAssets(files')[key].path = ManifestPathOf(png)]_vars

\* C1's case has happened: an entry staged with subcategory minor was
\* approved with explicit category and name and no explicit subcategory.
C1_Witness ==
    /\ last.cmd = "approve"
    /\ last.result = 0
    /\ last.args.category = "enemy"
    /\ last.args.name = "slime"
    /\ last.args.subcategory = None
    /\ <<"used", "enemy", "minor", "slime.png">> \in DOMAIN files

(***************************************************************************)
(* C2                                                                      *)
(***************************************************************************)
\* C2: a completed reject of an existing staging directory u with reason r
\* leaves no staging/u, leaves alternatives/u, and the metadata record in
\* alternatives/u has status rejected, rejection_reason r and a rejection
\* timestamp.
C2_RejectPostState ==
    (last.cmd = "reject" /\ last.result = 0)
    => LET alt == <<"alternatives", last.args.uuid>>
           meta == <<"alternatives", last.args.uuid, "metadata.json">>
       IN /\ ~Exists(Disk, <<"staging", last.args.uuid>>)
          /\ IsDir(Disk, alt)
          /\ meta \in DOMAIN files
          /\ files[meta].status = "rejected"
          /\ files[meta].rejection_reason = last.args.reason
          /\ "rejected_at" \in DOMAIN files[meta]

(***************************************************************************)
(* C3                                                                      *)
(***************************************************************************)
\* C3: when the response stream delivers one or more chunks with inline
\* image data, the bytes in the output image file when generate returns are
\* those of the first such chunk.
C3_FirstImageWins ==
    (/\ last.cmd = "generate"
     /\ ~last.exited
     /\ ImagesOf(Delivered(last.stream)) # <<>>)
    => LET out == GenerateOutputPath(last.args, last.id)
       IN /\ out \in DOMAIN files
          /\ files[out] = ImagesOf(Delivered(last.stream))[1].data

(***************************************************************************)
(* C4                                                                      *)
(***************************************************************************)
\* C4: in every reachable state every directory staging/<uuid> holds
\* exactly one image file and exactly one metadata record.
C4_StagingEntryInvariant ==
    \A u \in AssetIds :
        IsDir(Disk, <<"staging", u>>)
        => FilesBelow(files, <<"staging", u>>)
           = {<<"staging", u, "sprite.png">>, <<"staging", u, "metadata.json">>}

(***************************************************************************)
(* C5                                                                      *)
(***************************************************************************)
\* C5: apply on the image path of an asset that approve has put in the used
\* tree (with or without overrides) leaves the manifest's keys unchanged
\* and rewrites the entry under the asset's key with the same path, frames
\* and size: the manifest's assets are as before.
C5_ApplyIdempotent ==
    [][(/\ last'.cmd = "apply"
        /\ last'.result = 0
        /\ IsPrefix(<<"used">>, last'.args.path)
        /\ \E k \in DOMAIN ManifestAssets(files) :
               ManifestAssets(files)[k].path = ManifestPathOf(last'.args.path)
        /\ ApplyMetaPath(last'.args.path) \in DOMAIN files
        /\ "approved_at" \in DOMAIN files[ApplyMetaPath(last'.args.path)])
       => ManifestAssets(files') = ManifestAssets(files)]_vars

(***************************************************************************)
(* C6                                                                      *)
(***************************************************************************)
\* C6: for every metadata record with status used next to an image of the
\* used tree, derive(record.category, record.subcategory, record.name) is
\* the manifest key under which that image's path is recorded.
C6_UsedMetadataKey ==
    \A p \in DOMAIN files : \A n \in NameUniverse :
        (/\ IsPrefix(<<"used">>, p)
         /\ FileName(p) = n \o ".meta.json"
         /\ files[p].status = "used"
         /\ Append(Parent(p), n \o ".png") \in DOMAIN files)
        => \A k \in DOMAIN ManifestAssets(files) :
               ManifestAssets(files)[k].path = ManifestPathOf(Append(Parent(p), n \o ".png"))
               => k = Derive(files[p].category, files[p].subcategory, files[p].name)

(***************************************************************************)
(* C7                                                                      *)
(***************************************************************************)
\* the step records under key k: k is the one key the manifest may have
\* gained, and the command reports it
RecordsUnder(k) ==
    /\ DOMAIN ManifestAssets(files') = DOMAIN ManifestAssets(files) \cup {k}
    /\ last'.key = k

\* C7: at each Record site the manifest key written is
\* category.subcategory.name when a subcategory is present and
\* category.name otherwise: in a direct generate of the requested triple,
\* in approve of the resolved triple (explicit argument, else stored
\* metadata), in apply of the triple of the metadata sidecar.
C7_KeyDerivation ==
    [][/\ (/\ last'.cmd = "generate"
           /\ last'.result = 0
           /\ (last'.args.output = "direct" \/ last'.args.auto_apply))
          => RecordsUnder(Derive(last'.args.category, last'.args.subcategory,
                                 last'.args.name))
       /\ (last'.cmd = "approve" /\ last'.result = 0)
          => LET a == last'.args
                 m == files[<<"staging", a.uuid, "metadata.json">>]
                 c == IF a.category # None THEN a.category ELSE m.category
                 sc == IF a.subcategory # None THEN a.subcategory ELSE m.subcategory
                 n == IF a.name # None THEN a.name ELSE m.name
             IN RecordsUnder(Derive(c, sc, n))
       /\ (/\ last'.cmd = "apply"
           /\ last'.result = 0
           /\ ApplyMetaPath(last'.args.path) \in DOMAIN files)
          => LET m == files[ApplyMetaPath(last'.args.path)]
             IN RecordsUnder(Derive(m.category, m.subcategory, m.name))]_vars

\* C7's case has happened: approve has recorded (enemy, minor, slime)
C7_Witness ==
    /\ last.cmd = "approve"
    /\ last.result = 0
    /\ last.key = "enemy.minor.slime"
    /\ "enemy.minor.slime" \in DOMAIN ManifestAssets(files)

(***************************************************************************)
(* C8                                                                      *)
(***************************************************************************)
\* approve of a finds no staging directory or no metadata record in it
ApproveFindsNothing(a) ==
    \/ ~Exists(Disk, <<"staging", a.uuid>>)
    \/ <<"staging", a.uuid, "metadata.json">> \notin DOMAIN files

\* approve of a finds the record but can resolve no category or no name
ApproveResolvesNothing(a) ==
    /\ ~ApproveFindsNothing(a)
    /\ LET m == files[<<"staging", a.uuid, "metadata.json">>]
       IN \/ a.category \in {None, ""} /\ m.category \in {None, ""}
          \/ a.name \in {None, ""} /\ m.name \in {None, ""}

\* C8 as stated: approve fails with NotFound when the staging directory or
\* its metadata record is missing and with MissingFields when category or
\* name cannot be resolved, and then leaves everything on disk exactly as
\* before the call.
C8_FailedApproveLeavesDiskAsBefore ==
    [][last'.cmd = "approve"
       => /\ ApproveFindsNothing(last'.args)
             => last'.result = 1 /\ last'.error = "NotFound"
          /\ ApproveResolvesNothing(last'.args)
             => last'.result = 1 /\ last'.error = "MissingFields"
          /\ (ApproveFindsNothing(last'.args) \/ ApproveResolvesNothing(last'.args))
             => files' = files /\ dirs' = dirs /\ skeleton' = skeleton]_vars

\* C8 (amended): approve fails with NotFound when the staging directory or
\* its metadata record is missing and with MissingFields when category or
\* name cannot be resolved; it then leaves every file (the manifest, the
\* staging entries, the used assets, the alternatives entries) and every
\* directory outside the fixed skeleton as before the call, but it has
\* created the directory skeleton of ensure_directories if that was missing.
C8_FailedApproveNoOp ==
    [][last'.cmd = "approve"
       => /\ ApproveFindsNothing(last'.args)
             => last'.result = 1 /\ last'.error = "NotFound"
          /\ ApproveResolvesNothing(last'.args)
             => last'.result = 1 /\ last'.error = "MissingFields"
          /\ (ApproveFindsNothing(last'.args) \/ ApproveResolvesNothing(last'.args))
             => files' = files /\ dirs' = dirs /\ skeleton' = TRUE]_vars

\* C8's case has happened: approve of a staged entry failed with MissingFields
C8_Witness ==
    /\ last.cmd = "approve"
    /\ last.result = 1
    /\ last.error = "MissingFields"
    /\ <<"staging", last.args.uuid, "metadata.json">> \in DOMAIN files

(***************************************************************************)
(* C9                                                                      *)
(***************************************************************************)
\* C9: a generate whose response stream carries no image data, or whose
\* stream raises, returns 1; it writes no metadata record and adds or
\* changes no manifest entry (no file but the output image differs from
\* before, and the manifest file is as before).
C9_FailedGenerate ==
    [][(/\ last'.cmd = "generate"
        /\ ~last'.exited
        /\ (ImagesOf(last'.stream) = <<>> \/ HasRaise(last'.stream)))
       => /\ last'.result = 1
          /\ \A p \in DOMAIN files' \ {GenerateOutputPath(last'.args, last'.id)} :
                 p \in DOMAIN files /\ files'[p] = files[p]
          /\ DOMAIN files \subseteq DOMAIN files'
          /\ GenerateMetadataPath(last'.args, last'.id) \in DOMAIN files'
             => /\ GenerateMetadataPath(last'.args, last'.id) \in DOMAIN files
                /\ files'[GenerateMetadataPath(last'.args, last'.id)]
                   = files[GenerateMetadataPath(last'.args, last'.id)]
          /\ ManifestAssets(files') = ManifestAssets(files)]_vars

\* C9's case has happened: a generate over a recorded asset got a response
\* without image data and returned 1
C9_Witness ==
    /\ last.cmd = "generate"
    /\ last.result = 1
    /\ ~HasRaise(last.stream)
    /\ last.stream # <<>>
    /\ DOMAIN ManifestAssets(files) # {}

(***************************************************************************)
(* C10                                                                     *)
(***************************************************************************)
\* the size generate resolves: --size when given, else the category default
ResolvedSize(a) ==
    IF a.size = NoInt
    THEN get_size_for_category(a.category, a.subcategory)
    ELSE CHOOSE n \in a.size : TRUE

\* C10: a successful generate with direct output or auto-apply for
\* (c, sc, n) creates nothing under staging, writes an image of the
\* response and a metadata record with status used at
\* used/c[/sc]/n.{png,meta.json}, and upserts the manifest entry under
\* derive(c, sc, n) with that image's path, the requested frame count and
\* the resolved size, the other entries staying as they are.
C10_DirectCreation ==
    [][(/\ last'.cmd = "generate"
        /\ last'.result = 0
        /\ (last'.args.output = "direct" \/ last'.args.auto_apply))
       => LET a == last'.args
              png == UsedDirOf(a.category, a.subcategory) \o <<a.name \o ".png">>
              meta == UsedDirOf(a.category, a.subcategory) \o <<a.name \o ".meta.json">>
              key == Derive(a.category, a.subcategory, a.name)
              before == ManifestAssets(files)
              after == ManifestAssets(files')
          IN /\ {d \in dirs' : IsPrefix(<<"staging">>, d)}
                = {d \in dirs : IsPrefix(<<"staging">>, d)}
             /\ FilesBelow(files', <<"staging">>) = FilesBelow(files, <<"staging">>)
             /\ png \in DOMAIN files'
             /\ \E i \in 1..Len(last'.stream) :
                    /\ last'.stream[i].kind = "part"
                    /\ last'.stream[i].data = files'[png]
             /\ meta \in DOMAIN files'
             /\ files'[meta].status = "used"
             /\ DOMAIN after = DOMAIN before \cup {key}
             /\ after[key] = [path |-> ManifestPathOf(png), frames |-> a.frames,
                              size |-> ResolvedSize(a)]
             /\ \A k \in DOMAIN before \ {key} : after[k] = before[k]]_vars

\* C10's case has happened: an auto-apply generate has added a second entry
\* to the manifest
C10_Witness ==
    /\ last.cmd = "generate"
    /\ last.result = 0
    /\ last.args.auto_apply
    /\ Cardinality(DOMAIN ManifestAssets(files)) = 2

(***************************************************************************)
(* C11                                                                     *)
(***************************************************************************)
\* the call of the step on item k failed on an empty response or on a
\* provider error
BatchItemFailed ==
    /\ last'.i = last.i + 1
    /\ last.has_key
    /\ last'.results[last'.i] # 0

\* C11: generate is invoked exactly once for each item of the batch file,
\* in file order and one after the other (each turn of the loop handles
\* item i + 1, and the command returns only when every item has had its
\* turn); a failed item does not stop the loop, is not retried, and leaves
\* every file the earlier items wrote as it was.
C11_BatchContinues ==
    [][(last.cmd = "batch" /\ last.has_key)
       => /\ last'.i \in {last.i, last.i + 1}
          /\ last'.i = last.i + 1
             => /\ last'.i <= Len(last.args.manifest.items)
                /\ Len(last'.results) = last'.i
                /\ \E r \in {BatchIteration(Disk, last.args.manifest.items, last'.i,
                                            last.args.auto_apply, TRUE,
                                            BatchAssetId(last'.i),
                                            last'.streams[last'.i], now)} :
                       /\ r.result = last'.results[last'.i]
                       /\ r.disk = DiskNext
          /\ (last'.pc = "done" /\ last.args.manifest.exists)
             => Len(last'.results) = Len(last.args.manifest.items) /\ last'.result = 0
          /\ BatchItemFailed
             => /\ last'.pc = "loop"
                /\ \A p \in DOMAIN files : p \in DOMAIN files' /\ files'[p] = files[p]]_vars

(***************************************************************************)
(* C12                                                                     *)
(***************************************************************************)
\* d1.d2. ... .dk. for the directory segments d1 .. dk
RECURSIVE DottedPrefix(_)
DottedPrefix(segs) ==
    IF segs = <<>> THEN "" ELSE segs[1] \o "." \o DottedPrefix(Tail(segs))

\* the key the claim infers for the file <stem>.<ext> at path p of the used tree
PathInferredKey(p, stem) == DottedPrefix(SubSeq(p, 2, Len(p) - 1)) \o stem

\* the file names <stem>.<ext> of the model, with their stems
StemOf ==
    [f \in {n \o ".png" : n \in NameUniverse} \cup {n \o ".meta.json" : n \in NameUniverse}
       |-> IF \E n \in NameUniverse : f = n \o ".png"
           THEN CHOOSE n \in NameUniverse : f = n \o ".png"
           ELSE (CHOOSE n \in NameUniverse : f = n \o ".meta.json") \o ".meta"]

\* C12: apply on an existing file used/d1/.../dk/<stem>.<ext> that has no
\* <stem>.meta.json next to it records the manifest key d1. ... .dk.stem;
\* and for every asset that approve or a direct generate places under
\* (c, s, n), the key apply infers from the path of its image is
\* derive(c, s, n).
C12_ApplyInfersKeyFromPath ==
    [][/\ (/\ last'.cmd = "apply"
           /\ last'.result = 0
           /\ IsPrefix(<<"used">>, last'.args.path)
           /\ Len(last'.args.path) > 2
           /\ FileName(last'.args.path) \in DOMAIN StemOf
           /\ Append(Parent(last'.args.path),
                     StemOf[FileName(last'.args.path)] \o ".meta.json") \notin DOMAIN files)
          => /\ last'.key = PathInferredKey(last'.args.path,
                                            StemOf[FileName(last'.args.path)])
             /\ last'.key \in DOMAIN ManifestAssets(files')
       /\ (/\ last'.cmd = "generate"
           /\ last'.result = 0
           /\ (last'.args.output = "direct" \/ last'.args.auto_apply))
          => LET a == last'.args
             IN ApplyAssetKey(EmptyAssets,
                              UsedDirOf(a.category, a.subcategory) \o <<a.name \o ".png">>)
                = Derive(a.category, a.subcategory, a.name)
       /\ (last'.cmd = "approve" /\ last'.result = 0)
          => LET a == last'.args
                 m == files[<<"staging", a.uuid, "metadata.json">>]
                 c == IF Truthy(a.category) THEN a.category ELSE m.category
                 sc == IF Truthy(a.subcategory) THEN a.subcategory ELSE m.subcategory
                 n == IF Truthy(a.name) THEN a.name ELSE m.name
             IN ApplyAssetKey(EmptyAssets, UsedDirOf(c, sc) \o <<n \o ".png">>)
                = Derive(c, sc, n)]_vars

(***************************************************************************)
(* C13                                                                     *)
(***************************************************************************)
\* C13: sizeFor(category, subcategory) is the table value of
\* category.subcategory when a subcategory is given and that key is in the
\* table, otherwise the table value of category when it is in the table,
\* otherwise 64; so (terrain, background) gives 512 and (ui, none),
\* (unknown_category, none) and (enemy, none) give 64.
C13_DefaultSize ==
    last.cmd = "get_size_for_category"
    => LET c == last.category
           sc == last.subcategory
           qualified == c \o "." \o sc
       IN /\ (sc # None /\ qualified \in DOMAIN SIZE_DEFAULTS)
             => last.result = SIZE_DEFAULTS[qualified]
          /\ (~(sc # None /\ qualified \in DOMAIN SIZE_DEFAULTS)
              /\ c \in DOMAIN SIZE_DEFAULTS)
             => last.result = SIZE_DEFAULTS[c]
          /\ (~(sc # None /\ qualified \in DOMAIN SIZE_DEFAULTS)
              /\ c \notin DOMAIN SIZE_DEFAULTS)
             => last.result = 64
          /\ (c = "terrain" /\ sc = "background") => last.result = 512
          /\ (c \in {"ui", "unknown_category", "enemy"} /\ sc = None)
             => last.result = 64

\* C13's case has happened: the size of (terrain, background) was resolved
C13_Witness ==
    /\ last.cmd = "get_size_for_category"
    /\ last.category = "terrain"
    /\ last.subcategory = "background"
    /\ last.result = 512

(***************************************************************************)
(* C14                                                                     *)
(***************************************************************************)
\* the layout clause of the claim: total size and frame size for a sheet,
\* 'single sprite, size x size' for one frame
LayoutClause(size, frames) ==
    IF frames > 1
    THEN "sprite sheet with " \o ToString(frames)
         \o " frames arranged horizontally, total image size "
         \o ToString(size * frames) \o "x" \o ToString(size)
         \o " pixels, each frame " \o ToString(size) \o "x" \o ToString(size)
         \o " pixels"
    ELSE "single sprite, " \o ToString(size) \o "x" \o ToString(size) \o " pixels"

\* the elements of the claim's composition, in its order
PromptElements(call) ==
    <<IF "base_style" \in DOMAIN call.style_guide
      THEN call.style_guide.base_style ELSE DEFAULT_STYLE_PROMPT>>
    \o <<LayoutClause(call.size, call.frames)>>
    \o <<IF "aesthetic" \in DOMAIN call.style_guide
         THEN call.style_guide.aesthetic ELSE DEFAULT_AESTHETIC>>
    \o (IF call.god \in {"zeus", "poseidon", "ares", "demeter"}
        THEN <<"using " \o GOD_PALETTES[call.god].description \o " color palette">>
        ELSE <<>>)
    \o <<call.base_prompt>>

\* e1, e2, ..., en
RECURSIVE CommaJoined(_)
CommaJoined(es) ==
    IF Len(es) = 1 THEN es[1] ELSE CommaJoined(SubSeq(es, 1, Len(es) - 1)) \o ", " \o es[Len(es)]

\* C14: compose returns the ', '-join of, in this order, the style guide's
\* base style (the default constant if absent), the layout clause (total
\* size*frames x size and per-frame size x size for frames > 1, 'single
\* sprite, size x size' for frames = 1), the aesthetic text (the default if
\* absent), the palette description only when a known god name is given,
\* and the caller's prompt verbatim as the last element; for frames = 4 and
\* size = 64 the clause states 256x64 and 64x64.
C14_PromptComposition ==
    last.cmd = "build_prompt"
    => /\ last.result = CommaJoined(PromptElements(last))
       /\ Len(PromptElements(last)) = IF last.god \in DOMAIN GOD_PALETTES THEN 5 ELSE 4
       /\ (last.frames = 4 /\ last.size = 64)
          => LayoutClause(last.size, last.frames)
             = "sprite sheet with 4 frames arranged horizontally, total image size 256x64 pixels, each frame 64x64 pixels"
       /\ (last.frames = 1 /\ last.size = 64)
          => LayoutClause(last.size, last.frames) = "single sprite, 64x64 pixels"

\* C14's case has happened: a four-frame sheet of size 64 with a known god
\* and a style guide without an aesthetic entry was composed
C14_Witness ==
    /\ last.cmd = "build_prompt"
    /\ last.frames = 4
    /\ last.size = 64
    /\ last.god = "zeus"
    /\ "aesthetic" \notin DOMAIN last.style_guide
    /\ "base_style" \in DOMAIN last.style_guide
    /\ last.base_prompt = "green slime"

(***************************************************************************)
(* C15                                                                     *)
(***************************************************************************)
\* C15: load() right after save(m) returns a document equal to m, for every
\* manifest document m; load() with no manifest file returns
\* {version: 1, assets: {}}.
C15_ManifestRoundTrip ==
    [][last'.cmd = "load_manifest"
       => /\ last.cmd = "save_manifest" => last'.result = last.manifest
          /\ MANIFEST_PATH \notin DOMAIN files
             => last'.result = [version |-> 1, assets |-> EmptyAssets]]_vars

\* C15's case has happened: a manifest of version 2 with two entries was
\* saved and loaded
C15_Witness ==
    /\ last.cmd = "load_manifest"
    /\ MANIFEST_PATH \in DOMAIN files
    /\ last.result.version = 2
    /\ DOMAIN last.result.assets = ManifestKeys
    /\ last.result.assets["player.idle"].size = 32

(***************************************************************************)
(* C16                                                                     *)
(***************************************************************************)
\* C16 as stated: reject of a uuid without a staging/<uuid> directory
\* returns failure (NotFound) and leaves the staging area, the alternatives
\* area (an existing alternatives/<uuid> and its metadata included), the
\* used tree and the manifest unchanged.
C16_FailedRejectLeavesDiskAsBefore ==
    [][(last'.cmd = "reject" /\ ~Exists(Disk, <<"staging", last'.args.uuid>>))
       => /\ last'.result = 1
          /\ last'.error = "NotFound"
          /\ files' = files
          /\ dirs' = dirs
          /\ skeleton' = skeleton]_vars

\* C16 (amended): reject of a uuid without a staging/<uuid> directory
\* returns failure (NotFound) and leaves every file (the manifest, the
\* staging entries, the used assets, the alternatives entries with their
\* metadata) and every directory outside the fixed layout unchanged; it has
\* created the directory layout of ensure_directories if that was missing.
C16_FailedRejectNoOp ==
    [][(last'.cmd = "reject" /\ ~Exists(Disk, <<"staging", last'.args.uuid>>))
       => /\ last'.result = 1
          /\ last'.error = "NotFound"
          /\ files' = files
          /\ dirs' = dirs
          /\ skeleton' = TRUE]_vars

\* C16's case has happened: reject failed with NotFound on a uuid that has an
\* alternatives entry with metadata
C16_Witness ==
    /\ last.cmd = "reject"
    /\ last.result = 1
    /\ last.error = "NotFound"
    /\ <<"alternatives", last.args.uuid, "metadata.json">> \in DOMAIN files
    /\ files[<<"alternatives", last.args.uuid, "metadata.json">>].status = "rejected"

(***************************************************************************)
(* C17                                                                     *)
(***************************************************************************)
\* the version field of the manifest among the files f
ManifestVersion(f) ==
    IF MANIFEST_PATH \in DOMAIN f THEN JsonLoadManifest(f[MANIFEST_PATH]).version ELSE 1

\* the step is a Record: a successful direct generate, approve or apply
IsRecordStep ==
    \/ /\ last'.cmd = "generate"
       /\ last'.result = 0
       /\ (last'.args.output = "direct" \/ last'.args.auto_apply)
    \/ last'.cmd = "approve" /\ last'.result = 0
    \/ last'.cmd = "apply" /\ last'.result = 0

\* the entry the Record of the step writes: the asset's path, frame count
\* and size
RecordedEntry ==
    CASE last'.cmd = "generate" ->
           LET a == last'.args
           IN [path |-> ManifestPathOf(UsedDirOf(a.category, a.subcategory)
                                       \o <<a.name \o ".png">>),
               frames |-> a.frames,
               size |-> ResolvedSize(a)]
      [] last'.cmd = "approve" ->
           LET a == last'.args
               m == files[<<"staging", a.uuid, "metadata.json">>]
               c == IF Truthy(a.category) THEN a.category ELSE m.category
               sc == IF Truthy(a.subcategory) THEN a.subcategory ELSE m.subcategory
               n == IF Truthy(a.name) THEN a.name ELSE m.name
           IN [path |-> ManifestPathOf(UsedDirOf(c, sc) \o <<n \o ".png">>),
               frames |-> m.frames,
               size |-> m.size]
      [] last'.cmd = "apply" ->
           LET p == last'.args.path
           IN [path |-> ManifestPathOf(p),
               frames |-> IF ApplyMetaPath(p) \in DOMAIN files
                          THEN files[ApplyMetaPath(p)].frames ELSE 1,
               size |-> IF ApplyMetaPath(p) \in DOMAIN files
                        THEN files[ApplyMetaPath(p)].size ELSE 64]

C18_ApproveNotAtomic ==
    last.cmd = "approve"
    => LET staged == <<"staging", last.args.uuid, "sprite.png">>
           m == last.start.files[<<"staging", last.args.uuid, "metadata.json">>]
           c == IF Truthy(last.args.category) THEN last.args.category ELSE m.category
           sc == IF Truthy(last.args.subcategory) THEN last.args.subcategory
                 ELSE m.subcategory
           n == IF Truthy(last.args.name) THEN last.args.name ELSE m.name
           used == UsedDirOf(c, sc) \o <<n \o ".png">>
       IN /\ (last.pc = "crashed" /\ last.at \in {"metadata", "manifest", "remove"})
             => /\ IsDir(Disk, <<"staging", last.args.uuid>>)
                /\ staged \in DOMAIN files
                /\ used \in DOMAIN files
                /\ files[used] = files[staged]
          /\ (last.pc = "crashed" /\ last.at = "remove")
             => ManifestPathOf(used)
                \in {ManifestAssets(files)[k].path : k \in DOMAIN ManifestAssets(files)}
          /\ (last.pc = "done" /\ last.result = 0)
             => /\ Disk = cmd_approve(last.start, last.args, now).disk
                /\ ~Exists(Disk, <<"staging", last.args.uuid>>)
                /\ used \in DOMAIN files

\* C18's case has happened: the approve crashed after recording the asset,
\* and staging/u1 and the used copy are both there
C18_Witness ==
    /\ last.cmd = "approve"
    /\ last.pc = "crashed"
    /\ last.at = "remove"
    /\ <<"staging", "u1", "sprite.png">> \in DOMAIN files
    /\ <<"used", "player", "idle.png">> \in DOMAIN files
    /\ "player.idle" \in DOMAIN ManifestAssets(files)

(***************************************************************************)
(* C19                                                                     *)
(***************************************************************************)
\* both invocations have finished their Record
BothRecorded == last.cmd = "record" /\ \A p \in Procs : last.procs[p].pc = "done"

\* the two loads came before the first save
LoadsInterleaved == last.trace[1][2] = "load" /\ last.trace[2][2] = "load"

\* the process whose save came last
LastWriter == last.trace[Len(last.trace)][1]

\* C19: two invocations each do a Record (load manifest, set one key, save
\* the whole manifest) for different keys.  Run one after the other, both
\* keys are in the manifest at the end, each with its entry.  When both
\* load before either saves, the manifest at the end has the last writer's
\* key and not the other one: last writer wins, nothing is merged.
C19_LostUpdate ==
    BothRecorded
    => /\ last.procs[1].key # last.procs[2].key
       /\ last.mode = "sequential"
          => \A p \in Procs :
                /\ last.procs[p].key \in DOMAIN ManifestAssets(files)
                /\ ManifestAssets(files)[last.procs[p].key] = last.procs[p].entry
       /\ ~LoadsInterleaved
          => \A p \in Procs : last.procs[p].key \in DOMAIN ManifestAssets(files)
       /\ LoadsInterleaved
          => \A p \in Procs :
                last.procs[p].key \in DOMAIN ManifestAssets(files) <=> p = LastWriter

\* C19's case has happened: two concurrent Records are done and the manifest
\* has only one of the two keys, beside the two it had
C19_Witness ==
    /\ BothRecorded
    /\ last.mode = "concurrent"
    /\ Cardinality(RecordKeys \cap DOMAIN ManifestAssets(files)) = 1
    /\ Cardinality(DOMAIN ManifestAssets(files)) = 3

(***************************************************************************)
(* C20                                                                     *)
(***************************************************************************)
\* uuid has an entry in staging, in alternatives, among the files f and
\* directories d
InStaging(f, d, uuid) ==
    <<"staging", uuid>> \in d \/ FilesBelow(f, <<"staging", uuid>>) # {}

InAlternatives(f, d, uuid) ==
    <<"alternatives", uuid>> \in d \/ FilesBelow(f, <<"alternatives", uuid>>) # {}

\* an approve of uuid has completed: its record with that id is in the used tree
WasApproved(f, uuid) ==
    \E p \in DOMAIN f :
        /\ IsPrefix(<<"used">>, p)
        /\ \E n \in NameUniverse : FileName(p) = n \o ".meta.json"
        /\ f[p].id = uuid
        /\ "approved_at" \in DOMAIN f[p]

\* C20: a uuid that a completed approve or reject has taken out of staging
\* is not in staging after any later command, and a later approve or reject
\* of it returns NotFound; no uuid is in staging and in alternatives at
\* once; no command takes an entry out of alternatives (into the used tree
\* or elsewhere) or records a manifest entry for a file of alternatives.
C20_LifecycleOneWay ==
    [][\A uuid \in AssetIds :
        /\ ((InAlternatives(files, dirs, uuid) \/ WasApproved(files, uuid))
            /\ ~InStaging(files, dirs, uuid))
           => ~InStaging(files', dirs', uuid)
        /\ (/\ last'.cmd \in {"approve", "reject"}
            /\ last'.args.uuid = uuid
            /\ ~InStaging(files, dirs, uuid))
           => last'.result = 1 /\ last'.error = "NotFound"
        /\ ~(InStaging(files', dirs', uuid) /\ InAlternatives(files', dirs', uuid))
        /\ \A p \in FilesBelow(files, <<"alternatives", uuid>>) :
               p \in DOMAIN files'
        /\ \A k \in DOMAIN ManifestAssets(files') :
               ~IsPrefix(<<"assets", "sprites", "alternatives">>,
                         ManifestAssets(files')[k].path)]_vars

(***************************************************************************)
(* C21                                                                     *)
(***************************************************************************)
\* the fields of the style guide document
StyleGuideFields == {"base_style", "aesthetic", "palettes"}

\* the file at p is after the step what it was before it: absent, or present
\* with the same content
FileKept(p) ==
    IF p \in DOMAIN files
    THEN p \in DOMAIN files' /\ files'[p] = files[p]
    ELSE p \notin DOMAIN files'

\* C21: init writes a style guide document with the fields base_style,
\* aesthetic and palettes, and the manifest {version: 1, assets: {}}, each
\* only when the file is absent; an existing style guide or manifest is left
\* as it is by init, so init drops no manifest entry; no command other than
\* init writes the style guide.
C21_InitOnlySeeds ==
    [][/\ last'.cmd = "init" =>
            /\ last'.result = 0
            /\ IF STYLE_GUIDE_PATH \in DOMAIN files
               THEN FileKept(STYLE_GUIDE_PATH)
               ELSE /\ STYLE_GUIDE_PATH \in DOMAIN files'
                    /\ DOMAIN files'[STYLE_GUIDE_PATH] = StyleGuideFields
            /\ IF MANIFEST_PATH \in DOMAIN files
               THEN FileKept(MANIFEST_PATH)
               ELSE /\ MANIFEST_PATH \in DOMAIN files'
                    /\ JsonLoadManifest(files'[MANIFEST_PATH])
                         = [version |-> 1, assets |-> EmptyAssets]
            /\ \A k \in DOMAIN ManifestAssets(files) :
                   /\ k \in DOMAIN ManifestAssets(files')
                   /\ ManifestAssets(files')[k] = ManifestAssets(files)[k]
       /\ last'.cmd # "init" => FileKept(STYLE_GUIDE_PATH)]_vars

(***************************************************************************)
(* C22                                                                     *)
(***************************************************************************)
\* the approve in progress found its staging entry with an image and
\* resolved a destination
ApproveUnderWay ==
    /\ last.cmd = "approve"
    /\ last.error \notin {"NotFound", "MissingFields"}
    /\ <<"staging", last.args.uuid, "sprite.png">> \in DOMAIN last.start.files

\* the image that approve found in staging
ApprovedImage == last.start.files[<<"staging", last.args.uuid, "sprite.png">>]

\* where the asset of the approve in progress belongs in the used tree, and
\* its manifest key
ApprovedUsedDir ==
    LET m == last.start.files[<<"staging", last.args.uuid, "metadata.json">>]
    IN UsedDirOf(IF Truthy(last.args.category) THEN last.args.category ELSE m.category,
                 IF Truthy(last.args.subcategory) THEN last.args.subcategory
                 ELSE m.subcategory)

ApprovedName ==
    LET m == last.start.files[<<"staging", last.args.uuid, "metadata.json">>]
    IN IF Truthy(last.args.name) THEN last.args.name ELSE m.name

ApprovedKey ==
    LET m == last.start.files[<<"staging", last.args.uuid, "metadata.json">>]
    IN Derive(IF Truthy(last.args.category) THEN last.args.category ELSE m.category,
              IF Truthy(last.args.subcategory) THEN last.args.subcategory
              ELSE m.subcategory,
              ApprovedName)

\* C22: at every point of an approve, also when it has stopped between two
\* of its steps, the image is in staging/<uuid> or in the used tree; the
\* staging directory is gone only when the used metadata record and the
\* manifest entry of the asset have both been written.
C22_ApproveNeverLoses ==
    ApproveUnderWay
    => LET staged == <<"staging", last.args.uuid, "sprite.png">>
           used == ApprovedUsedDir \o <<ApprovedName \o ".png">>
           record == ApprovedUsedDir \o <<ApprovedName \o ".meta.json">>
       IN /\ \/ staged \in DOMAIN files /\ files[staged] = ApprovedImage
             \/ used \in DOMAIN files /\ files[used] = ApprovedImage
          /\ ~Exists(Disk, <<"staging", last.args.uuid>>)
             => /\ record \in DOMAIN files
                /\ files[record].id = last.start.files[<<"staging", last.args.uuid,
                                                         "metadata.json">>].id
                /\ files[record].status = "used"
                /\ ApprovedKey \in DOMAIN ManifestAssets(files)
                /\ ManifestAssets(files)[ApprovedKey].path = ManifestPathOf(used)

\* C22's case has happened: an approve ran to its end, staging/u1 is gone
\* and the image it held is in the used tree
C22_Witness ==
    /\ ApproveUnderWay
    /\ last.pc = "done"
    /\ last.result = 0
    /\ last.args.uuid = "u1"
    /\ ~Exists(Disk, <<"staging", "u1">>)
    /\ <<"used", "player", "idle.png">> \in DOMAIN files
    /\ files[<<"used", "player", "idle.png">>] = ApprovedImage

(***************************************************************************)
(* C23                                                                     *)
(***************************************************************************)
\* the generate request a writes straight into the used tree
TargetsUsedTree(a) == a.output = "direct" \/ a.auto_apply

\* C23: a direct or auto-apply generate for an asset (c, s, n) that is
\* already in the used tree and that returns 1 (no image chunk, or an
\* exception raised at any point of the stream, also after an image chunk
\* was consumed) leaves the asset's image file, its metadata record and the
\* manifest as they were.
C23_FailedGenerateKeepsApproved ==
    [][LET a == last'.args
           image == UsedDirOf(a.category, a.subcategory) \o <<a.name \o ".png">>
           record == UsedDirOf(a.category, a.subcategory) \o <<a.name \o ".meta.json">>
       IN (/\ last'.cmd = "generate"
           /\ ~last'.exited
           /\ last'.result = 1
           /\ TargetsUsedTree(a)
           /\ image \in DOMAIN files)
          => /\ FileKept(image)
             /\ FileKept(record)
             /\ FileKept(MANIFEST_PATH)]_vars

(***************************************************************************)
(* C24                                                                     *)
(***************************************************************************)
\* an image file of the sprites directory: a .png
IsImagePath(p) == \E n \in NameUniverse : FileName(p) = n \o ".png"

\* the commands that record in the manifest: direct generate, approve, apply
Recording(l) ==
    \/ l.cmd = "generate" /\ ~l.exited /\ TargetsUsedTree(l.args)
    \/ l.cmd \in {"approve", "apply"}

\* C24: after any sequence of completed init, generate, approve, reject and
\* apply commands every manifest entry's path refers to an image file that
\* exists, and only a direct generate, an approve or an apply changes the
\* assets mapping of the manifest.
C24_ManifestNeverDangles ==
    [][/\ \A k \in DOMAIN ManifestAssets(files') :
              \E p \in DOMAIN files' :
                  /\ ManifestAssets(files')[k].path = ManifestPathOf(p)
                  /\ IsImagePath(p)
       /\ ManifestAssets(files') # ManifestAssets(files) => Recording(last')]_vars

====
